---- MODULE Spec2Model ----
(***************************************************************************)
(* Model of the bucket-viewer backend's preview subsystem:                 *)
(*   backend/utils/file_handlers.py  classifier, dispatcher and decoders   *)
(*   backend/app.py                  the /api/file handler, format_file_size*)
(*                                                                         *)
(* Strings are TLA+ strings; str.lower() is the operator lower, defined by *)
(* an explicit table of the upper- and mixed-case spellings in play.       *)
(* A byte count is a record [hi, lo] standing for hi * 2^30 + lo: Python   *)
(* integers are unbounded, and terabyte sizes must stay inside the         *)
(* TLC's 32-bit integers.                                                  *)
(***************************************************************************)
EXTENDS Integers, Sequences, FiniteSets, TLC

(***************************************************************************)
(* Strings and str.lower()                                                 *)
(***************************************************************************)

\* The extensions the table lists, in lower case, plus unlisted ones.
TextExts == {"txt", "md", "json", "csv", "xml", "html", "css", "js", "py", "r"}

ImageExts == {"jpg", "jpeg", "png", "gif", "tif", "tiff", "bmp", "svg"}

DocumentExts == {"docx", "xlsx", "pdf"}

ArchiveExts == {"zip", "tar", "gz", "rar"}

UnlistedExts == {"", "exe", "mp4"}

LowerExts == TextExts \cup ImageExts \cup DocumentExts \cup ArchiveExts \cup UnlistedExts

\* <<spelling, its lower-case form>> for every spelling with an upper-case letter.
CaseTable ==
    { <<"TXT", "txt">>, <<"MD", "md">>, <<"JSON", "json">>, <<"CSV", "csv">>,
      <<"XML", "xml">>, <<"HTML", "html">>, <<"CSS", "css">>, <<"JS", "js">>,
      <<"PY", "py">>, <<"R", "r">>,
      <<"JPG", "jpg">>, <<"JPEG", "jpeg">>, <<"PNG", "png">>, <<"GIF", "gif">>,
      <<"TIF", "tif">>, <<"TIFF", "tiff">>, <<"BMP", "bmp">>, <<"SVG", "svg">>,
      <<"DOCX", "docx">>, <<"XLSX", "xlsx">>, <<"PDF", "pdf">>,
      <<"ZIP", "zip">>, <<"TAR", "tar">>, <<"GZ", "gz">>, <<"RAR", "rar">>,
      <<"EXE", "exe">>, <<"MP4", "mp4">>,
      <<"Txt", "txt">>, <<"Json", "json">>, <<"Csv", "csv">>, <<"Xml", "xml">>,
      <<"Png", "png">>, <<"Tiff", "tiff">>, <<"Docx", "docx">>, <<"Xlsx", "xlsx">>,
      <<"Pdf", "pdf">>, <<"Zip", "zip">>, <<"Exe", "exe">> }

CasedExts == { p[1] : p \in CaseTable }

\* Every extension string a caller may pass.
Extensions == LowerExts \cup CasedExts

\* str.lower(): a spelling with an upper-case letter maps to its lower-case
\* form, any other string is already lower case.
lower(s) ==
    IF \E p \in CaseTable : p[1] = s
    THEN (CHOOSE p \in CaseTable : p[1] = s)[2]
    ELSE s

\* Python truthiness of a str: the empty string is falsy.
StrTruthy(s) == s # ""

(***************************************************************************)
(* Byte counts                                                             *)
(***************************************************************************)

Limb == 2^30

Big(hi, lo) == [hi |-> hi, lo |-> lo]

\* An int below 2^30 as a byte count.
Small(n) == Big(0, n)

\* a > b on byte counts.
BigGT(a, b) == a.hi > b.hi \/ (a.hi = b.hi /\ a.lo > b.lo)

\* Python truthiness of an int: zero is falsy.
BigTruthy(a) == a.hi # 0 \/ a.lo # 0

\* Python's None.
None == [none |-> TRUE]

(***************************************************************************)
(* file_handlers.py: the classifier                                        *)
(***************************************************************************)

\* The module-level dict, in insertion order (dict iteration order).
SupportedTypesLiteral ==
    << [category |-> "text",
        extensions |-> <<"txt", "md", "json", "csv", "xml", "html", "css", "js", "py", "r">>],
       [category |-> "image",
        extensions |-> <<"jpg", "jpeg", "png", "gif", "tif", "tiff", "bmp", "svg">>],
       [category |-> "document", extensions |-> <<"docx", "xlsx", "pdf">>],
       [category |-> "archive", extensions |-> <<"zip", "tar", "gz", "rar">>],
       [category |-> "other", extensions |-> << >>] >>

\* `x in list`
InList(x, list) == \E i \in 1..Len(list) : list[i] = x

\* SUPPORTED_TYPES[category]
TypesOf(table, category) ==
    table[CHOOSE i \in 1..Len(table) : table[i].category = category].extensions

VARIABLES
    SUPPORTED_TYPES,  \* file_handlers.py's module-level table
    ret               \* the last direct call of a library function: [fn, args, value]

\* 100MB size limit (104,857,600 bytes)
MAX_SIZE == 104857600

\* is_supported_type with the size test written `>=`.
is_supported_type_inclusive(extension, size) ==
    IF size # None /\ ~BigGT(Small(MAX_SIZE), size)
    THEN FALSE
    ELSE IF InList(lower(extension), TypesOf(SUPPORTED_TYPES, "archive"))
    THEN FALSE
    ELSE \E i \in 1..Len(SUPPORTED_TYPES) :
            InList(lower(extension), SUPPORTED_TYPES[i].extensions)

\* is_supported_type(extension, size=None)
is_supported_type(extension, size) ==
    IF size # None /\ BigGT(size, Small(MAX_SIZE))
    THEN FALSE
    ELSE IF InList(lower(extension), TypesOf(SUPPORTED_TYPES, "archive"))
    THEN FALSE
    ELSE IF \E i \in 1..Len(SUPPORTED_TYPES) :
                InList(lower(extension), SUPPORTED_TYPES[i].extensions)
    THEN TRUE
    ELSE FALSE

\* The loop of get_file_type over SUPPORTED_TYPES.items(), from entry i on.
RECURSIVE CategoryFrom(_, _)
CategoryFrom(extension, i) ==
    IF i > Len(SUPPORTED_TYPES)
    THEN "other"
    ELSE IF InList(extension, SUPPORTED_TYPES[i].extensions)
    THEN SUPPORTED_TYPES[i].category
    ELSE CategoryFrom(extension, i + 1)

\* get_file_type without the lower-casing of its argument.
get_file_type_cased(extension) ==
    CategoryFrom(IF StrTruthy(extension) THEN extension ELSE "", 1)

\* get_file_type(extension)
get_file_type(extension) ==
    LET ext == IF StrTruthy(extension) THEN lower(extension) ELSE ""
    IN  CategoryFrom(ext, 1)

(***************************************************************************)
(* Files on disk, as the decoders see them                                 *)
(*                                                                         *)
(* A file is described by what the libraries the decoders call make of it: *)
(*   fmt      what the bytes are: UTF-8 text ("text", "json", "xml",       *)
(*            "csv"), a raster image, a DOCX or XLSX package, other        *)
(*            non-UTF-8 bytes ("binary"), or no readable file ("missing")  *)
(*   nchars   characters of its text, width bytes each                     *)
(*   lines    lines of its text (line 0 is a CSV's header row)             *)
(*   pandasOk whether pandas.read_csv parses it, readerOk whether          *)
(*            csv.reader does                                              *)
(*   paras    paragraphs of a DOCX, rows: data rows of an XLSX first sheet *)
(*   img      PIL's format of an image, saveOk whether PIL re-encodes it   *)
(*   size     its length in bytes                                          *)
(*   doc      for JSON text, the document: its top-level kind, an object's *)
(*            members in the order written (a key may be written twice),   *)
(*            and tail, the white space after the document's last          *)
(*            character                                                    *)
(***************************************************************************)

\* f.read(10000)
TEXT_LIMIT == 10000

\* nrows=100, head(100), content[:100], `if i >= 100`
ROW_LIMIT == 100

\* How far past a cap the file lengths of the model go.
Extra == 2

\* Characters per line of the CSV files of the model.
LineChars == 30

Min(a, b) == IF a < b THEN a ELSE b

TextFmts == {"text", "json", "xml", "csv"}

\* A member of a JSON object: "key": val
Member(key, val) == [key |-> key, val |-> val]

JsonDoc(top, members, tail) == [top |-> top, members |-> members, tail |-> tail]

NoDoc == JsonDoc("", << >>, 0)

TextFile(fmt, nchars, width, lines, pandasOk, readerOk) ==
    [fmt |-> fmt, nchars |-> nchars, width |-> width, lines |-> lines,
     pandasOk |-> pandasOk, readerOk |-> readerOk,
     paras |-> 0, rows |-> 0, img |-> "", saveOk |-> FALSE,
     size |-> Small(nchars * width), doc |-> NoDoc]

BlobFile(fmt, size, paras, rows, img, saveOk) ==
    [fmt |-> fmt, nchars |-> 0, width |-> 1, lines |-> 0,
     pandasOk |-> FALSE, readerOk |-> FALSE,
     paras |-> paras, rows |-> rows, img |-> img, saveOk |-> saveOk,
     size |-> size, doc |-> NoDoc]

\* Lengths around a cap: none, one, just below the cap to just above it, far above.
Around(cap, far) == {0, 1} \cup ((cap - 1)..(cap + Extra)) \cup {far}

CharWidths == {1, 2}

PlainTexts ==
    { TextFile("text", n, w, IF n = 0 THEN 0 ELSE 1, n > 0, TRUE) :
        n \in Around(TEXT_LIMIT, 50000), w \in CharWidths }

\* White space after a document's last character, in the files of the model.
TailChars == 3

\* The JSON documents of n characters: a one-character document is a scalar (a
\* digit); a longer one is an object, its keys distinct or one written twice,
\* ending at the file's end or followed by white space.
JsonShapes(n) ==
    IF n <= TailChars + 2
    THEN { JsonDoc("number", << >>, 0) }
    ELSE { JsonDoc("object", m, t) :
            m \in { << Member("a", 1), Member("b", 2) >>,
                    << Member("a", 1), Member("b", 2), Member("a", 3) >> },
            t \in {0, TailChars} }

JsonDocs ==
    UNION { { [TextFile("json", n, w, 1, TRUE, TRUE) EXCEPT !.doc = d] :
                d \in JsonShapes(n), w \in CharWidths } :
            n \in Around(TEXT_LIMIT, 50000) \ {0} }

XmlDocs ==
    { TextFile("xml", n, w, 1, TRUE, TRUE) :
        n \in Around(TEXT_LIMIT, 50000) \ {0}, w \in CharWidths }

\* A CSV with a header row and n data rows.
CsvFiles ==
    { TextFile("csv", (n + 1) * LineChars, 1, n + 1, p, r) :
        n \in Around(ROW_LIMIT, 500), p \in BOOLEAN, r \in BOOLEAN }

ImageFiles ==
    { BlobFile("image", Small(4096), 0, 0, f, s) :
        f \in {"PNG", "JPEG", "TIFF"}, s \in BOOLEAN }

DocxFiles ==
    { BlobFile("docx", Small(4096), n, 0, "", FALSE) : n \in Around(ROW_LIMIT, 500) }

XlsxFiles ==
    { BlobFile("xlsx", Small(4096), 0, n, "", FALSE) : n \in Around(ROW_LIMIT, 500) }

BinaryFile == BlobFile("binary", Small(4096), 0, 0, "", FALSE)

MissingFile == BlobFile("missing", Small(0), 0, 0, "", FALSE)

\* The files get_file_preview is called on.
Files ==
    PlainTexts \cup JsonDocs \cup XmlDocs \cup CsvFiles \cup ImageFiles
        \cup DocxFiles \cup XlsxFiles \cup {BinaryFile, MissingFile}

(***************************************************************************)
(* Outcomes of a call: a returned value or a raised exception, with the    *)
(* library calls made on the file on the way                               *)
(***************************************************************************)

Return(v, calls) == [kind |-> "return", value |-> v, calls |-> calls]

Raise(e, calls) == [kind |-> "raise", exc |-> e, calls |-> calls]

\* outcome o, after the calls cs were made before it
After(cs, o) == [o EXCEPT !.calls = cs \cup @]

\* A message with one interpolated value (an f-string).
Msg(text, arg) == [msg |-> text, arg |-> arg]

(***************************************************************************)
(* The library calls of the decoders                                       *)
(***************************************************************************)

\* open(file_path, "r", encoding="utf-8")
open_text(file) ==
    IF file.fmt = "missing"
    THEN Raise("FileNotFoundError", {"open"})
    ELSE Return(file, {"open"})

\* f.read(n) on a text-mode file: at most n characters, decoded as UTF-8.
read_text(file, n) ==
    IF file.fmt \notin TextFmts
    THEN Raise("UnicodeDecodeError", {"read"})
    ELSE LET k == Min(file.nchars, n)
         IN  Return([form |-> "raw", chars |-> k, bytes |-> k * file.width], {"read"})

\* with open(...) as f: content = f.read(n)
open_and_read(file, n) ==
    LET f == open_text(file)
    IN  IF f.kind = "raise" THEN f ELSE After(f.calls, read_text(file, n))

\* The dict json.loads builds from an object's members: a key keeps the place
\* of its first occurrence and the value of its last.
dict_of(members) ==
    LET firsts == { i \in 1..Len(members) :
                        \A j \in 1..(i - 1) : members[j].key # members[i].key }
        last(i) == CHOOSE j \in 1..Len(members) :
                        /\ members[j].key = members[i].key
                        /\ \A k \in (j + 1)..Len(members) : members[k].key # members[i].key
        nth(n) == CHOOSE i \in firsts : Cardinality({ j \in firsts : j < i }) = n - 1
    IN  [n \in 1..Cardinality(firsts) |->
            Member(members[nth(n)].key, members[last(nth(n))].val)]

\* json.loads(content): the characters read parse when they hold the whole
\* document, white space after it cut or not.  The value carries the number of
\* characters and bytes it was parsed from.
json_loads(file, content) ==
    IF file.fmt = "json" /\ content.chars >= file.nchars - file.doc.tail
    THEN Return([top |-> file.doc.top, members |-> dict_of(file.doc.members),
                 chars |-> content.chars, bytes |-> content.bytes],
                {"json.loads"})
    ELSE Raise("JSONDecodeError", {"json.loads"})

\* json.dumps(content, indent=2): the string read, dumped as one JSON string.
json_dumps_string(parsed) ==
    [form |-> "json_pretty", indent |-> 2, top |-> "string", members |-> << >>,
     chars |-> parsed.chars, bytes |-> parsed.bytes]

\* json.dumps(parsed, indent=2): the value written out again, a member a line.
json_dumps(parsed) ==
    [form |-> "json_pretty", indent |-> 2, top |-> parsed.top, members |-> parsed.members,
     chars |-> parsed.chars, bytes |-> parsed.bytes]

\* A parsed line of a CSV, by its line number.
Row(i) == [line |-> i]

\* pd.read_csv(file_path, nrows=n): the header line and at most n data rows.
pd_read_csv(file, n) ==
    IF file.fmt = "missing" THEN Raise("FileNotFoundError", {"pd.read_csv"})
    ELSE IF file.fmt \notin TextFmts THEN Raise("UnicodeDecodeError", {"pd.read_csv"})
    ELSE IF file.lines = 0 THEN Raise("EmptyDataError", {"pd.read_csv"})
    ELSE IF ~file.pandasOk THEN Raise("ParserError", {"pd.read_csv"})
    ELSE Return([columns |-> Row(0),
                 rows |-> [i \in 1..Min(file.lines - 1, n) |-> Row(i)]],
                {"pd.read_csv"})

\* df.head(n).values.tolist()
df_head(df, n) == SubSeq(df.rows, 1, Min(Len(df.rows), n))

\* The csv.reader loop of get_text_preview:
\*   for i, row in enumerate(reader):
\*       if i == 0: columns = row  else: rows.append(row)
\*       if i >= 100: break
\* Iteration i runs when the file has a line i and no earlier iteration broke
\* out, so the iterations that run are 0..m-1 for their number m; iteration 0
\* assigns columns and every later one appends its row.
LoopBreaks_late(i) == i > 100

LoopBreaks(i) == i >= 100

reader_loop(file, columns, rows) ==
    LET ran == { i \in 0..(file.lines - 1) : \A j \in 0..(i - 1) : ~LoopBreaks(j) }
        m == Cardinality(ran)
    IN  [columns |-> IF m > 0 THEN Row(0) ELSE columns,
         rows |-> rows \o [k \in 1..(m - 1) |-> Row(k)]]

\* columns = []
EmptyList == [line |-> -1]

\* The fallback of the csv branch: open the file again and run csv.reader over it.
csv_module_read(file) ==
    LET f == open_text(file)
    IN  IF f.kind = "raise" THEN After({"csv.reader"}, f)
        ELSE IF file.fmt \notin TextFmts
        THEN Raise("UnicodeDecodeError", f.calls \cup {"csv.reader"})
        ELSE IF ~file.readerOk
        THEN Raise("csv.Error", f.calls \cup {"csv.reader"})
        ELSE Return(reader_loop(file, EmptyList, << >>), f.calls \cup {"csv.reader"})

\* xml.dom.minidom.parse(file_path): reads and parses the whole file.
minidom_parse(file) ==
    IF file.fmt = "xml"
    THEN Return([form |-> "dom", chars |-> file.nchars, bytes |-> file.nchars * file.width],
                {"minidom.parse"})
    ELSE Raise("ExpatError", {"minidom.parse"})

\* dom.toprettyxml()
toprettyxml(dom) == [dom EXCEPT !.form = "xml_pretty"]

(***************************************************************************)
(* file_handlers.py: the decoders                                          *)
(***************************************************************************)

\* The csv branch of get_text_preview (lines 103-150).
csv_branch(file) ==
    LET primary == pd_read_csv(file, 100)
    IN  IF primary.kind = "return"
        THEN Return([type |-> "csv",
                     preview |-> [columns |-> primary.value.columns,
                                  data |-> df_head(primary.value, 100)]],
                    primary.calls)
        ELSE \* except Exception as csv_err
             LET fallback == After(primary.calls, csv_module_read(file))
             IN  IF fallback.kind = "return"
                 THEN Return([type |-> "csv",
                              preview |-> [columns |-> fallback.value.columns,
                                           data |-> fallback.value.rows]],
                             fallback.calls)
                 ELSE \* except Exception as e
                      LET again == After(fallback.calls, open_and_read(file, 10000))
                      IN  IF again.kind = "raise"
                          THEN again
                          ELSE Return([type |-> "text", preview |-> again.value,
                                       extension |-> "txt"],
                                      again.calls)

\* The body of get_text_preview's try (lines 92-160).
text_preview_body(file, extension) ==
    LET rd == open_and_read(file, 10000)
    IN  IF rd.kind = "raise" THEN rd
        ELSE IF extension = "json"
        THEN LET parsed == json_loads(file, rd.value)
                 content == IF parsed.kind = "return"
                            THEN json_dumps(parsed.value)
                            ELSE rd.value   \* except: pass
             IN  Return([type |-> "text", preview |-> content, extension |-> extension],
                        rd.calls \cup parsed.calls)
        ELSE IF extension = "csv"
        THEN After(rd.calls, csv_branch(file))
        ELSE IF extension = "xml"
        THEN LET dom == minidom_parse(file)
                 content == IF dom.kind = "return"
                            THEN toprettyxml(dom.value)
                            ELSE rd.value   \* except: pass
             IN  Return([type |-> "text", preview |-> content, extension |-> extension],
                        rd.calls \cup dom.calls)
        ELSE Return([type |-> "text", preview |-> rd.value, extension |-> extension],
                    rd.calls)

BinaryMessage == "This appears to be a binary file and cannot be previewed as text"

\* get_text_preview(file_path, extension)
get_text_preview(file, extension) ==
    LET body == text_preview_body(file, extension)
    IN  IF body.kind = "raise" /\ body.exc = "UnicodeDecodeError"
        THEN Return([type |-> "binary", preview |-> Msg(BinaryMessage, "")], body.calls)
        ELSE body

\* Image.open(file_path), thumbnail, img.save(buffer, format), base64
image_encode(file, format) ==
    IF file.fmt = "missing" THEN Raise("FileNotFoundError", {"Image.open"})
    ELSE IF file.fmt # "image" THEN Raise("UnidentifiedImageError", {"Image.open"})
    ELSE IF ~file.saveOk THEN Raise("OSError", {"Image.open", "img.save"})
    ELSE Return([form |-> "base64", format |-> format], {"Image.open", "img.save"})

\* img.format.lower()
FormatLower(f) ==
    CASE f = "PNG" -> "png" [] f = "JPEG" -> "jpeg" [] f = "TIFF" -> "tiff" [] OTHER -> f

\* get_image_preview(file_path, extension)
get_image_preview(file, extension) ==
    IF lower(extension) \in {"tif", "tiff"}
    THEN LET enc == image_encode(file, "PNG")
         IN  IF enc.kind = "raise"
             THEN Return([type |-> "error",
                          preview |-> Msg("Error processing TIF/TIFF file: ", enc.exc)],
                         enc.calls)
             ELSE Return([type |-> "image", preview |-> enc.value,
                          mime |-> Msg("image/", "png")],   \* Always use PNG for TIFFs
                         enc.calls)
    ELSE LET enc == image_encode(file, file.img)
         IN  IF enc.kind = "raise"
             THEN Return([type |-> "error",
                          preview |-> Msg("Error processing image: ", enc.exc)],
                         enc.calls)
             ELSE Return([type |-> "image", preview |-> enc.value,
                          mime |-> Msg("image/", FormatLower(file.img))],
                         enc.calls)

\* Document(file_path): the package's paragraphs, all of them.
docx_Document(file) ==
    IF file.fmt = "missing" THEN Raise("PackageNotFoundError", {"Document"})
    ELSE IF file.fmt # "docx" THEN Raise("BadZipFile", {"Document"})
    ELSE Return([i \in 1..file.paras |-> i], {"Document"})

\* get_docx_preview(file_path)
get_docx_preview(file) ==
    LET doc == docx_Document(file)
    IN  IF doc.kind = "raise"
        THEN Return([type |-> "error",
                     preview |-> Msg("Error parsing DOCX file: ", doc.exc)], doc.calls)
        ELSE LET content == doc.value
             IN  Return([type |-> "docx",
                         preview |-> [joined |-> SubSeq(content, 1, Min(Len(content), 100))]],
                        doc.calls)

\* pd.read_excel(file_path, sheet_name=0, nrows=n)
pd_read_excel(file, n) ==
    IF file.fmt = "missing" THEN Raise("FileNotFoundError", {"pd.read_excel"})
    ELSE IF file.fmt # "xlsx" THEN Raise("ValueError", {"pd.read_excel"})
    ELSE Return([columns |-> Row(0),
                 rows |-> [i \in 1..Min(file.rows, n) |-> Row(i)]],
                {"pd.read_excel"})

\* get_xlsx_preview(file_path)
get_xlsx_preview(file) ==
    LET df == pd_read_excel(file, 100)
    IN  IF df.kind = "raise"
        THEN Return([type |-> "error",
                     preview |-> Msg("Error parsing XLSX file: ", df.exc)], df.calls)
        ELSE Return([type |-> "xlsx",
                     preview |-> [columns |-> df.value.columns,
                                  data |-> df_head(df.value, 100)]],
                    df.calls)

(***************************************************************************)
(* file_handlers.py: the dispatcher                                        *)
(***************************************************************************)

ArchiveMessage == "Archive files cannot be previewed. Please download to view contents."

\* The body of get_file_preview's try (lines 62-83).
file_preview_body(file, extension, file_type) ==
    LET unsupported ==
            Return([type |-> "unsupported",
                    preview |-> Msg("Preview not available for {extension} files", extension)],
                   {})
    IN  IF file_type = "text" THEN get_text_preview(file, extension)
        ELSE IF file_type = "image" THEN get_image_preview(file, extension)
        ELSE IF file_type = "document"
        THEN IF extension = "docx" THEN get_docx_preview(file)
             ELSE IF extension = "xlsx" THEN get_xlsx_preview(file)
             ELSE IF extension = "pdf"
             THEN Return([type |-> "pdf", preview |-> Msg("PDF preview not available", "")], {})
             ELSE unsupported
        ELSE IF file_type = "archive"
        THEN Return([type |-> "zip", preview |-> Msg(ArchiveMessage, "")], {})
        ELSE unsupported

\* get_file_preview without its try/except.
get_file_preview_uncaught(file, extension) ==
    file_preview_body(file, extension, get_file_type(extension))

\* get_file_preview(file_path, extension)
get_file_preview(file, extension) ==
    LET file_type == get_file_type(extension)
        body == file_preview_body(file, extension, file_type)
    IN  IF body.kind = "raise"
        THEN Return([type |-> "error",
                     preview |-> Msg("Error generating preview: ", body.exc)], body.calls)
        ELSE body

(***************************************************************************)
(* app.py: format_file_size                                                *)
(***************************************************************************)

units == <<"B", "KB", "MB", "GB", "TB">>

\* bytes / 1024^i >= 1024, for the value the loop holds after i divisions.
\* (Dividing a float below 2^53 by 1024 is exact, so the loop's value is the
\* exact quotient.)
AtLeast1024(bytes, i) ==
    IF i + 1 <= 2
    THEN bytes.hi > 0 \/ bytes.lo >= 1024 ^ (i + 1)
    ELSE bytes.hi >= 1024 ^ (i + 1 - 3)

\* while bytes >= 1024 and i < len(units) - 1: bytes /= 1024; i += 1
RECURSIVE unit_loop(_, _)
unit_loop(bytes, i) ==
    IF AtLeast1024(bytes, i) /\ i < Len(units) - 1
    THEN unit_loop(bytes, i + 1)
    ELSE i

\* The loop dividing by 1000 instead of 1024.
IntPart_decimal(bytes, i) == bytes.lo \div (1000 ^ i)

\* int(bytes) for the loop's value after i <= 2 divisions (then below 1024).
IntPart(bytes, i) == bytes.lo \div (1024 ^ i)

\* floor(100 * lo / 2^30) and the remainder, without leaving 32 bits.
Times100(lo) ==
    LET a == lo \div (2 ^ 15)
        b == lo % (2 ^ 15)
        t == 100 * a + ((100 * b) \div (2 ^ 15))
        d == (100 * b) % (2 ^ 15)
    IN  [q |-> t \div (2 ^ 15), r |-> (t % (2 ^ 15)) * (2 ^ 15) + d]

\* f"{bytes:.2f}" for the loop's value after i >= 3 divisions: the exact value
\* in hundredths, rounded half to even.
Hundredths(bytes, i) ==
    LET m == Times100(bytes.lo)
        n == 100 * bytes.hi + m.q
    IN  IF i = 3
        THEN LET up == m.r > 2 ^ 29 \/ (m.r = 2 ^ 29 /\ n % 2 = 1)
             IN  IF up THEN n + 1 ELSE n
        ELSE LET f == n \div 1024
                 r == n % 1024
                 up == r > 512 \/ (r = 512 /\ m.r > 0) \/ (r = 512 /\ m.r = 0 /\ f % 2 = 1)
             IN  IF up THEN f + 1 ELSE f

\* A rendered size: whole part, two decimals (-1: none are printed), unit.
Rendered(whole, decimals, unit) == [whole |-> whole, decimals |-> decimals, unit |-> unit]

\* format_file_size(bytes)
format_file_size(bytes) ==
    IF bytes = Small(0)
    THEN Rendered(0, -1, "B")
    ELSE LET i == unit_loop(bytes, 0)
         IN  IF i >= 3
             THEN LET h == Hundredths(bytes, i)
                  IN  Rendered(h \div 100, h % 100, units[i + 1])
             ELSE Rendered(IntPart(bytes, i), -1, units[i + 1])

(***************************************************************************)
(* app.py: the /api/file and /api/fileinfo handlers                        *)
(***************************************************************************)

\* How many temp files are created in a run of the model.
MaxTemps == 1

\* Byte counts a request's size parameter or an object's ContentLength may hold.
Sizes ==
    { Small(0), Small(1), Small(1023), Small(1024),
      Small(104857599), Small(104857600), Small(104857601), Small(200000000),
      Big(1, 536870912), Big(1023, Limb - 1), Big(2048, 0), Big(1048576, 0) }

\* Objects too large to preview, besides the files above.
LargeObjects ==
    { BlobFile("binary", z, 0, 0, "", FALSE) : z \in Sizes \ {Small(0)} }
        \cup { TextFile("text", 200000000, 1, 1, TRUE, TRUE) }

\* The objects a key of the bucket may hold.
Objects == (Files \ {MissingFile}) \cup LargeObjects

\* request.args.get('path', ''): empty, or a key whose name ends in ".<ext>"
\* (no dot: ext = "").
Paths ==
    { [empty |-> TRUE, ext |-> ""] } \cup { [empty |-> FALSE, ext |-> e] : e \in Extensions }

\* request.args.get('size', ''): None stands for a string that is empty or not
\* all digits, a byte count for the digits given.
SizeArgs == {None} \cup Sizes

VARIABLES
    pc,           \* where the /api/file handler is
    req,          \* its locals (preview, file_size, file_ext), the size the request
                  \* gave, the ContentLength head_object gave and the object
                  \* download_file fetched
    temp_path,    \* its temp file, 0 when it has none
    preview_data, \* its preview_data
    disk,         \* the temp files that exist
    ntemps,       \* how many temp files were created so far
    response,     \* the last HTTP response
    effects       \* what the current request did so far: S3 calls, temp file, library calls

vars == <<SUPPORTED_TYPES, ret, pc, req, temp_path, preview_data, disk, ntemps,
          response, effects>>

NoRequest == [none |-> TRUE]

NoObject == [none |-> TRUE]

\* The ContentLength values head_object may report.
ObjectSizes == { o.size : o \in Objects }

NoResponse == [none |-> TRUE]

NoCall == [none |-> TRUE]

Init ==
    /\ SUPPORTED_TYPES = SupportedTypesLiteral
    /\ ret = NoCall
    /\ pc = "idle"
    /\ req = NoRequest
    /\ temp_path = 0
    /\ preview_data = None
    /\ disk = {}
    /\ ntemps = 0
    /\ response = NoResponse
    /\ effects = {}

\* jsonify(body), status
Json(status, body) == [status |-> status, body |-> body]

\* os.path.splitext(file_name)[1].lower()[1:]
file_ext_of(path) == lower(path.ext)

\* Check if file is too large for preview (100MB = 104,857,600 bytes)
MAX_PREVIEW_SIZE == 104857600

\* get_file, lines 207-238: the arguments, the S3 client, the extension.
Receive(path, preview, sizeArg, clientOk) ==
    /\ pc = "idle"
    /\ ntemps < MaxTemps
    /\ ret' = NoCall
    /\ effects' = {}
    /\ temp_path' = 0
    /\ preview_data' = None
    /\ IF path.empty
       THEN /\ response' = Json(400, [error |-> "File path is required"])
            /\ req' = NoRequest
            /\ pc' = "done"
       ELSE IF ~clientOk
       THEN /\ response' = Json(500, [error |-> "ValueError"])
            /\ req' = NoRequest
            /\ pc' = "done"
       ELSE /\ response' = NoResponse
            /\ req' = [preview |-> preview, size_arg |-> sizeArg, file_size |-> sizeArg,
                       file_ext |-> file_ext_of(path),
                       content_length |-> None, obj |-> NoObject]
            /\ pc' = IF preview
                     THEN IF sizeArg = None THEN "head" ELSE "check"
                     ELSE "dl_temp"
    /\ UNCHANGED <<SUPPORTED_TYPES, disk, ntemps>>

\* get_file, lines 243-253: head_object when the request gave no size.
\* It answers with the object's ContentLength, or raises and file_size = 0.
HeadObject(ok, length) ==
    /\ pc = "head"
    /\ req' = IF ok
              THEN [req EXCEPT !.file_size = length, !.content_length = length]
              ELSE [req EXCEPT !.file_size = Small(0)]
    /\ effects' = effects \cup {"head_object"}
    /\ pc' = "check"
    /\ UNCHANGED <<SUPPORTED_TYPES, ret, temp_path, preview_data, disk, ntemps, response>>

\* The ceiling test written `>=`.
ExceedsPreviewSize_inclusive(file_size) ==
    BigTruthy(file_size) /\ ~BigGT(Small(MAX_PREVIEW_SIZE), file_size)

\* if file_size and file_size > MAX_PREVIEW_SIZE
ExceedsPreviewSize(file_size) ==
    BigTruthy(file_size) /\ BigGT(file_size, Small(MAX_PREVIEW_SIZE))

\* The archive list with 'gz' forgotten.
HttpArchiveExts_short == {"zip", "tar", "rar"}

\* if file_ext.lower() in ['zip', 'tar', 'gz', 'rar']
HttpArchiveExts == {"zip", "tar", "gz", "rar"}

\* file_size or 0
SizeOrZero(file_size) == IF BigTruthy(file_size) THEN file_size ELSE Small(0)

TooLargeMessage == "This file is {size_display}, which exceeds the preview size limit."

\* get_file, lines 255-272: the size ceiling and the archive short-circuit.
Check ==
    /\ pc = "check"
    /\ IF ExceedsPreviewSize(req.file_size)
       THEN /\ response' = Json(200, [type |-> "too_large",
                                      preview |-> [msg |-> TooLargeMessage,
                                                   size_display |-> format_file_size(req.file_size)],
                                      size |-> req.file_size])
            /\ pc' = "done"
       ELSE IF lower(req.file_ext) \in HttpArchiveExts
       THEN /\ response' = Json(200, [type |-> "zip",
                                      preview |-> Msg(ArchiveMessage, ""),
                                      size |-> SizeOrZero(req.file_size)])
            /\ pc' = "done"
       ELSE /\ response' = response
            /\ pc' = "temp"
    /\ UNCHANGED <<SUPPORTED_TYPES, ret, req, temp_path, preview_data, disk, ntemps, effects>>

\* tempfile.NamedTemporaryFile(delete=False, ...): a new file, or an OSError.
NewTemp(ok, next) ==
    IF ok
    THEN /\ temp_path' = ntemps + 1
         /\ ntemps' = ntemps + 1
         /\ disk' = disk \cup {ntemps + 1}
         /\ effects' = effects \cup {"tempfile"}
         /\ pc' = next
         /\ response' = response
    ELSE /\ response' = Json(500, [error |-> "OSError"])
         /\ pc' = "done"
         /\ UNCHANGED <<temp_path, ntemps, disk, effects>>

\* get_file, lines 274-276
CreateTemp(ok) ==
    /\ pc = "temp"
    /\ NewTemp(ok, "download")
    /\ UNCHANGED <<SUPPORTED_TYPES, ret, req, preview_data>>

\* s3_client.download_file(current_bucket, file_path, temp_path): the object's
\* bytes land in the temp file, or the call raises.
S3Download(ok, next) ==
    /\ effects' = effects \cup {"download_file"}
    /\ IF ok
       THEN /\ pc' = next
            /\ response' = response
       ELSE /\ response' = Json(500, [error |-> "ClientError"])
            /\ pc' = "done"

\* get_file, lines 278-279. The object fetched is the one head_object described,
\* when it described one.
Download(ok, obj) ==
    /\ pc = "download"
    /\ req.content_length # None => obj.size = req.content_length
    /\ S3Download(ok, "preview")
    /\ req' = IF ok THEN [req EXCEPT !.obj = obj] ELSE req
    /\ UNCHANGED <<SUPPORTED_TYPES, ret, temp_path, preview_data, disk, ntemps>>

\* get_file, lines 281-282; an exception out of get_file_preview would reach the
\* handler's own `except Exception` (lines 301-302).
Preview ==
    /\ pc = "preview"
    /\ LET out == get_file_preview(req.obj, req.file_ext)
       IN  /\ effects' = effects \cup out.calls
           /\ IF out.kind = "raise"
              THEN /\ response' = Json(500, [error |-> out.exc])
                   /\ pc' = "done"
                   /\ preview_data' = preview_data
              ELSE /\ preview_data' = out.value
                   /\ pc' = "cleanup"
                   /\ response' = response
    /\ UNCHANGED <<SUPPORTED_TYPES, ret, req, temp_path, disk, ntemps>>

\* get_file, lines 284-287
Cleanup ==
    /\ pc = "cleanup"
    /\ disk' = disk \ {temp_path}
    /\ response' = Json(200, preview_data)
    /\ pc' = "done"
    /\ UNCHANGED <<SUPPORTED_TYPES, ret, req, temp_path, preview_data, ntemps, effects>>

\* get_file, lines 289-291
CreateTempForDownload(ok) ==
    /\ pc = "dl_temp"
    /\ NewTemp(ok, "dl_download")
    /\ UNCHANGED <<SUPPORTED_TYPES, ret, req, preview_data>>

\* get_file, line 293
DownloadForSend(ok) ==
    /\ pc = "dl_download"
    /\ S3Download(ok, "send")
    /\ UNCHANGED <<SUPPORTED_TYPES, ret, req, temp_path, preview_data, disk, ntemps>>

\* get_file, lines 295-299
SendFile ==
    /\ pc = "send"
    /\ response' = Json(200, [attachment |-> temp_path])
    /\ pc' = "done"
    /\ UNCHANGED <<SUPPORTED_TYPES, ret, req, temp_path, preview_data, disk, ntemps, effects>>

\* A direct call of a library function: it leaves the handlers' state alone.
\* value is the returned value, in a record when it is a string or a boolean.
Called(fn, args, value) ==
    /\ pc = "idle"
    /\ ret' = [fn |-> fn, args |-> args, value |-> value]
    /\ pc' = "done"
    /\ UNCHANGED <<SUPPORTED_TYPES, req, temp_path, preview_data, disk, ntemps,
                   response, effects>>

\* The caller has taken the response or the returned value: the handler's
\* locals are gone, the table and the disk stay.
Finish ==
    /\ pc = "done"
    /\ pc' = "idle"
    /\ ret' = NoCall
    /\ req' = NoRequest
    /\ response' = NoResponse
    /\ effects' = {}
    /\ temp_path' = 0
    /\ preview_data' = None
    /\ UNCHANGED <<SUPPORTED_TYPES, disk, ntemps>>

\* get_file_info (/api/fileinfo), lines 305-354: the head_object call and the
\* `supported` verdict on the stored size.
FileInfo(path, length, ok) ==
    /\ ~path.empty
    /\ ok
    /\ LET ext == file_ext_of(path)
       IN  Called("get_file_info", [extension |-> ext, size |-> length],
                  [extension |-> ext, size |-> length,
                   supported |-> is_supported_type(ext, length)])

CallGetFileType(extension) ==
    Called("get_file_type", [extension |-> extension],
           [category |-> get_file_type(extension)])

CallIsSupportedType(extension, size) ==
    Called("is_supported_type", [extension |-> extension, size |-> size],
           [supported |-> is_supported_type(extension, size)])

CallGetFilePreview(file, extension) ==
    Called("get_file_preview", [file |-> file, extension |-> extension],
           get_file_preview(file, extension))

CallGetTextPreview(file, extension) ==
    Called("get_text_preview", [file |-> file, extension |-> extension],
           get_text_preview(file, extension))

CallFormatFileSize(bytes) ==
    Called("format_file_size", [bytes |-> bytes], format_file_size(bytes))

\* A request arrives at /api/file.
GetFile ==
    /\ pc = "idle"
    /\ \E path \in Paths, preview \in BOOLEAN, sizeArg \in SizeArgs, clientOk \in BOOLEAN :
            Receive(path, preview, sizeArg, clientOk)

HeadObjectAnswers ==
    /\ pc = "head"
    /\ \E ok \in BOOLEAN, length \in ObjectSizes : HeadObject(ok, length)

DownloadAnswers ==
    /\ pc = "download"
    /\ \E ok \in BOOLEAN, obj \in Objects : Download(ok, obj)

\* A request arrives at /api/fileinfo.
GetFileInfo ==
    /\ pc = "idle"
    /\ \E path \in Paths, length \in ObjectSizes, ok \in BOOLEAN : FileInfo(path, length, ok)

\* Direct calls of the library, while no request is handled.
DirectGetFileType ==
    /\ pc = "idle"
    /\ \E e \in Extensions : CallGetFileType(e)

DirectIsSupportedType ==
    /\ pc = "idle"
    /\ \E e \in Extensions, z \in SizeArgs : CallIsSupportedType(e, z)

DirectGetFilePreview ==
    /\ pc = "idle"
    /\ \E f \in Files, e \in Extensions : CallGetFilePreview(f, e)

\* get_text_preview, called as get_file_preview calls it: with an extension
\* get_file_type puts under text.
DirectGetTextPreview ==
    /\ pc = "idle"
    /\ \E f \in Files, e \in { x \in Extensions : lower(x) \in TextExts } :
            CallGetTextPreview(f, e)

DirectFormatFileSize ==
    /\ pc = "idle"
    /\ \E z \in Sizes : CallFormatFileSize(z)

Next ==
    \/ GetFile
    \/ HeadObjectAnswers
    \/ Check
    \/ \E ok \in BOOLEAN : CreateTemp(ok)
    \/ DownloadAnswers
    \/ Preview
    \/ Cleanup
    \/ \E ok \in BOOLEAN : CreateTempForDownload(ok)
    \/ \E ok \in BOOLEAN : DownloadForSend(ok)
    \/ SendFile
    \/ GetFileInfo
    \/ DirectGetFileType
    \/ DirectIsSupportedType
    \/ DirectGetFilePreview
    \/ DirectGetTextPreview
    \/ DirectFormatFileSize
    \/ Finish

Spec == Init /\ [][Next]_vars

(***************************************************************************)
(* Properties                                                              *)
(***************************************************************************)

\* The preview made in the current state, if any: by a direct call of
\* get_file_preview, or by the /api/file handler on the object it downloaded.
DirectPreview == pc = "done" /\ ret # NoCall /\ ret.fn = "get_file_preview"

HandlerPreview == req # NoRequest /\ preview_data # None

PreviewTypes ==
    {"text", "csv", "xlsx", "image", "docx", "pdf", "zip", "unsupported", "binary", "error"}

\* What a decoder's failure on (file, extension) must end in, by the file's
\* content: "binary" for text that does not decode, "error" for a file that
\* cannot be read or that the format's library rejects; "" when no decoder
\* runs or none fails.
FailureType(file, extension) ==
    LET e == lower(extension)
    IN  IF e \in TextExts
        THEN IF file.fmt = "missing" THEN "error"
             ELSE IF file.fmt \notin TextFmts THEN "binary"
             ELSE ""
        ELSE IF e \in ImageExts
        THEN IF file.fmt # "image" \/ ~file.saveOk THEN "error" ELSE ""
        ELSE IF extension = "docx"
        THEN IF file.fmt # "docx" THEN "error" ELSE ""
        ELSE IF extension = "xlsx"
        THEN IF file.fmt # "xlsx" THEN "error" ELSE ""
        ELSE ""

PreviewIsTotal(file, extension, out) ==
    /\ out.kind = "return"
    /\ out.value.type \in PreviewTypes
    /\ FailureType(file, extension) # "" => out.value.type = FailureType(file, extension)

\* C1: for every extension (any case, empty, unknown) and every file content
\* (valid, corrupt, non-UTF-8, unreadable) get_file_preview returns one result
\* whose type is one of the ten preview types and lets no exception escape, in a
\* direct call and in the /api/file handler; a decoder's failure ends in an
\* error result, or in binary for text that does not decode.
C1_PreviewNeverRaises ==
    /\ DirectPreview => PreviewIsTotal(ret.args.file, ret.args.extension, ret.value)
    /\ (pc \in {"cleanup", "done"} /\ req # NoRequest /\ req.obj # NoObject) =>
            /\ preview_data # None
            /\ PreviewIsTotal(req.obj, req.file_ext, Return(preview_data, {}))
            /\ pc = "done" => response = Json(200, preview_data)

\* C1's case: an unreadable file under a text extension ends in an error result.
C1_Witness ==
    /\ DirectPreview
    /\ ret.args.file.fmt = "missing" /\ ret.args.extension = "txt"
    /\ ret.value.kind = "return" /\ ret.value.value.type = "error"

\* The category the documented table gives a lower-case extension.
DocumentedCategory(e) ==
    IF e \in TextExts THEN "text"
    ELSE IF e \in ImageExts THEN "image"
    ELSE IF e \in DocumentExts THEN "document"
    ELSE IF e \in ArchiveExts THEN "archive"
    ELSE "other"

\* The extensions the table gives category c.
Listed(c) == { TypesOf(SUPPORTED_TYPES, c)[i] : i \in 1..Len(TypesOf(SUPPORTED_TYPES, c)) }

\* C4: get_file_type maps every extension to exactly one category, the documented
\* one for each of the 25 table entries compared case-insensitively and other for
\* every unlisted extension, the empty string included; no extension is listed
\* under two categories, and no operation changes the table.
C4_Classification ==
    /\ SUPPORTED_TYPES = SupportedTypesLiteral
    /\ \A i, j \in 1..Len(SUPPORTED_TYPES) :
            i # j => Listed(SUPPORTED_TYPES[i].category)
                        \cap Listed(SUPPORTED_TYPES[j].category) = {}
    /\ Cardinality(UNION { Listed(SUPPORTED_TYPES[i].category) :
                            i \in 1..Len(SUPPORTED_TYPES) }) = 25
    /\ (pc = "done" /\ ret # NoCall /\ ret.fn = "get_file_type") =>
            ret.value.category = DocumentedCategory(lower(ret.args.extension))

\* C4's case: an upper-case spelling of a listed extension was classified.
C4_Witness ==
    /\ pc = "done" /\ ret # NoCall /\ ret.fn = "get_file_type"
    /\ ret.args.extension = "DOCX" /\ ret.value.category = "document"

\* size is absent or at most 104,857,600
WithinCeiling(size) == size = None \/ ~BigGT(size, Small(104857600))

\* C5: is_supported_type(extension, size) is true exactly when the size is absent
\* or at most 104,857,600 and get_file_type puts the extension under text, image
\* or document; so it is false above the ceiling, for archives and for unlisted
\* extensions, and a size at or below the ceiling answers as no size does.  The
\* `supported` field of /api/fileinfo is that verdict on the stored size.
C5_Supported ==
    /\ (pc = "done" /\ ret # NoCall /\ ret.fn = "is_supported_type") =>
            /\ ret.value.supported = (/\ WithinCeiling(ret.args.size)
                                      /\ get_file_type(ret.args.extension)
                                            \in {"text", "image", "document"})
            /\ WithinCeiling(ret.args.size) =>
                    ret.value.supported = is_supported_type(ret.args.extension, None)
    /\ (pc = "done" /\ ret # NoCall /\ ret.fn = "get_file_info") =>
            ret.value.supported = (/\ WithinCeiling(ret.args.size)
                                   /\ DocumentedCategory(ret.args.extension)
                                        \in {"text", "image", "document"})

\* C5's case: a listed extension at exactly the ceiling is supported.
C5_Witness ==
    /\ pc = "done" /\ ret # NoCall /\ ret.fn = "is_supported_type"
    /\ ret.args.extension = "PNG" /\ ret.args.size = Small(104857600)
    /\ ret.value.supported

\* A preview request that got past its arguments and the S3 client.
PreviewRequest == req # NoRequest /\ req.preview

\* The response is the too_large placeholder.
IsTooLarge(r) == r # NoResponse /\ r.status = 200 /\ "type" \in DOMAIN r.body /\ r.body.type = "too_large"

AboveCeiling(size) == size # None /\ BigGT(size, Small(104857600))

\* What reads the object: a temp file, a download, a decoder's library call.
ReadsContent(e) == e \ {"head_object"}

\* C2: a preview request whose size parameter is present and strictly greater
\* than 104,857,600 does nothing but answer the too_large placeholder carrying
\* that size, whatever the extension: it never creates a temp file, starts a
\* download or runs a decoder; a size of exactly 104,857,600 never answers
\* too_large.
C2_TooLargeFirst ==
    /\ (PreviewRequest /\ AboveCeiling(req.size_arg)) =>
            /\ pc \in {"check", "done"}
            /\ effects = {} /\ temp_path = 0 /\ preview_data = None
            /\ pc = "done" =>
                    /\ IsTooLarge(response)
                    /\ response.body.size = req.size_arg
                    /\ response.body.preview.msg = TooLargeMessage
    /\ (PreviewRequest /\ req.size_arg = Small(104857600)) => ~IsTooLarge(response)

\* C2's case: an archive request one byte above the ceiling was answered too_large.
C2_Witness ==
    /\ PreviewRequest /\ pc = "done" /\ req.file_ext = "zip"
    /\ req.size_arg = Small(104857601) /\ IsTooLarge(response)

\* The size a preview request knows: its parameter, else what head_object said.
KnownSize ==
    IF req.size_arg # None THEN req.size_arg ELSE req.content_length

FixedArchiveMessage == "Archive files cannot be previewed. Please download to view contents."

\* A preview request for an archive extension whose size is not above the ceiling.
ArchiveRequest ==
    /\ PreviewRequest /\ pc = "done"
    /\ req.file_ext \in ArchiveExts
    /\ ~AboveCeiling(KnownSize)

\* The HTTP short-circuit's answer: type zip, the fixed message, the known size
\* or 0, and the file never fetched.
HttpArchivePlaceholder ==
    /\ response.status = 200
    /\ DOMAIN response.body = {"type", "preview", "size"}
    /\ response.body.type = "zip"
    /\ response.body.preview = Msg(FixedArchiveMessage, "")
    /\ response.body.size = (IF KnownSize = None THEN Small(0) ELSE KnownSize)
    /\ ReadsContent(effects) = {} /\ temp_path = 0

\* A direct call of get_file_preview with an archive extension in any case.
DirectArchivePreview == DirectPreview /\ lower(ret.args.extension) \in ArchiveExts

\* C3 as stated: every archive placeholder, from the HTTP short-circuit and from
\* get_file_preview's archive branch alike, has type zip, the fixed message and a
\* size field, and no decoder ran.
C3_Original ==
    /\ ArchiveRequest => HttpArchivePlaceholder
    /\ DirectArchivePreview =>
            /\ ret.value.kind = "return" /\ ret.value.calls = {}
            /\ ret.value.value.type = "zip"
            /\ ret.value.value.preview = Msg(FixedArchiveMessage, "")
            /\ "size" \in DOMAIN ret.value.value

\* C3 (amended): an archive preview request not above the ceiling is answered by
\* the HTTP short-circuit with type zip, the fixed message and size = the known
\* size, or 0 when unknown, without fetching or decoding the file;
\* get_file_preview's archive branch returns type zip and the fixed message with
\* no size field, and runs no decoder.
C3_ArchivePlaceholder ==
    /\ ArchiveRequest => HttpArchivePlaceholder
    /\ DirectArchivePreview =>
            ret.value = Return([type |-> "zip", preview |-> Msg(FixedArchiveMessage, "")], {})

\* C3's case: the HTTP short-circuit answered an archive request whose size
\* stayed unknown (no size parameter, head_object failed).
C3_Witness ==
    /\ ArchiveRequest /\ req.file_ext = "gz" /\ KnownSize = None
    /\ "head_object" \in effects
    /\ response.body.type = "zip" /\ response.body.size = Small(0)

\* The size of the object the request names, as far as the request learnt it.
StoredSize ==
    IF req.content_length # None THEN req.content_length
    ELSE IF req.obj # NoObject THEN req.obj.size
    ELSE None

\* The size as the divide-by-1024 rule renders it: the unit is the first of B,
\* KB, MB, GB, TB at which the value is below 1024 (TB at the latest); B, KB and
\* MB are printed as whole numbers (truncated), GB and TB with two decimals.
RenderedByRule(size, shown) ==
    IF size.hi = 0
    THEN \E i \in 0..2 :
            /\ size.lo >= (IF i = 0 THEN 0 ELSE 1024 ^ i)
            /\ size.lo < 1024 ^ (i + 1)
            /\ shown = Rendered(size.lo \div (1024 ^ i), -1, units[i + 1])
    ELSE LET h == 100 * shown.whole + shown.decimals
             g == IF size.hi < 1024 THEN size.hi ELSE size.hi \div 1024
         IN  /\ shown.unit = (IF size.hi < 1024 THEN "GB" ELSE "TB")
             /\ shown.decimals \in 0..99
             /\ 100 * g <= h /\ h <= 100 * (g + 1)

Previews ==
    (IF DirectPreview /\ ret.value.kind = "return"
     THEN {[file |-> ret.args.file, extension |-> ret.args.extension,
            result |-> ret.value.value, calls |-> ret.value.calls]}
     ELSE {})
    \cup
    (IF HandlerPreview /\ req.obj # NoObject
     THEN {[file |-> req.obj, extension |-> req.file_ext,
            result |-> preview_data, calls |-> ReadsContent(effects) \ {"tempfile", "download_file"}]}
     ELSE {})

\* C7 as stated: get_file_preview called with any casing of an extension selects
\* the decoder and returns the type it does for the lower-case spelling.
C7_CaseInsensitive ==
    \A p \in Previews :
        LET q == get_file_preview(p.file, lower(p.extension))
        IN  /\ p.result.type = q.value.type
            /\ p.calls = q.calls

\* C8: for a CSV file with a header row and n data rows, previewed under the csv
\* extension, the csv result has exactly min(n, 100) data rows, the lines 1 to
\* min(n, 100) of the file, and the header row as columns, never among the data
\* rows, whether pandas parsed the file or the csv.reader loop did after pandas
\* failed; the result is a csv result whenever one of the two parses the file.
C8_CsvRowCap ==
    \A p \in Previews :
        (p.file.fmt = "csv" /\ p.extension = "csv") =>
            LET n == p.file.lines - 1
            IN  /\ (p.file.pandasOk \/ p.file.readerOk) <=> p.result.type = "csv"
                /\ (~p.file.pandasOk /\ p.file.readerOk) => "csv.reader" \in p.calls
                /\ p.file.pandasOk => "csv.reader" \notin p.calls
                /\ p.result.type = "csv" =>
                        /\ p.result.preview.columns = Row(0)
                        /\ Len(p.result.preview.data) = Min(n, 100)
                        /\ \A k \in 1..Len(p.result.preview.data) :
                                p.result.preview.data[k] = Row(k)

\* C8's case: a 500-row CSV that pandas rejects went through the reader loop.
C8_Witness ==
    \E p \in Previews :
        /\ p.file.fmt = "csv" /\ p.extension = "csv" /\ p.file.lines = 501
        /\ ~p.file.pandasOk /\ "csv.reader" \in p.calls
        /\ p.result.type = "csv" /\ Len(p.result.preview.data) = 100

GenericTextExts == {"txt", "md", "html", "css", "js", "py", "r"}

\* C9 as stated: for a generic-text extension and a decodable file of n bytes the
\* text result's preview is the first min(n, 10,000) bytes of the file.
C9_TextByteCap ==
    \A p \in Previews :
        (p.extension \in GenericTextExts /\ p.file.fmt \in TextFmts) =>
            /\ p.result.type = "text"
            /\ p.result.preview.form = "raw"
            /\ p.result.preview.bytes = Min(p.file.nchars * p.file.width, 10000)

\* C10 as stated: every decoder caps its output whatever the file's size: a text
\* result holds at most 10,000 bytes of the file (json and xml included), a csv
\* or xlsx result at most 100 data rows, a docx result at most 100 paragraphs.
C10_HardCaps ==
    \A p \in Previews :
        /\ p.result.type = "text" => p.result.preview.bytes <= 10000
        /\ p.result.type \in {"csv", "xlsx"} => Len(p.result.preview.data) <= 100
        /\ p.result.type = "docx" => Len(p.result.preview.joined) <= 100

\* The calls of get_text_preview made in the current state with the extension
\* json: a direct call, or the call get_file_preview made for it.
JsonPreviews ==
    (IF pc = "done" /\ ret # NoCall /\ ret.fn = "get_text_preview"
           /\ ret.args.extension = "json"
     THEN {[file |-> ret.args.file, out |-> ret.value]}
     ELSE {})
    \cup
    { [file |-> p.file, out |-> Return(p.result, p.calls)] :
        p \in { q \in Previews : q.extension = "json" /\ q.result.type # "error" } }

\* The first 10,000 characters of the file hold a whole JSON document.
ReadParses(file) ==
    file.fmt = "json" /\ Min(file.nchars, 10000) >= file.nchars - file.doc.tail

\* A JSON object as a mapping: each key written, with the value written last.
ObjectWritten(members) ==
    [k \in { members[i].key : i \in 1..Len(members) } |->
        members[CHOOSE i \in 1..Len(members) :
                    /\ members[i].key = k
                    /\ \A j \in (i + 1)..Len(members) : members[j].key # k].val]

\* The value a pretty-printed content parses to again.
Reparsed(content) ==
    [top |-> content.top, object |-> ObjectWritten(dict_of(content.members))]

\* The content is the re-serialization, indented, of the value the file's
\* document holds.
PrettyOf(file, content) ==
    /\ content.form = "json_pretty" /\ content.indent = 2
    /\ Reparsed(content) = [top |-> file.doc.top, object |-> ObjectWritten(file.doc.members)]
    /\ \A i, j \in 1..Len(content.members) :
            i # j => content.members[i].key # content.members[j].key

\* The content is the text read, as read.
RawOf(file, content) ==
    /\ content.form = "raw"
    /\ content.chars = Min(file.nchars, 10000)
    /\ content.bytes = content.chars * file.width

\* C11 as stated: for the json extension get_text_preview always returns a text
\* result with extension json; the content is the indented re-serialization when
\* the text read parses, and the raw text read when it does not, as for every
\* valid JSON file longer than the read.
C11_Original ==
    \A c \in JsonPreviews :
        /\ c.out.kind = "return"
        /\ c.out.value.type = "text"
        /\ c.out.value.extension = "json"
        /\ ReadParses(c.file) => PrettyOf(c.file, c.out.value.preview)
        /\ ~ReadParses(c.file) => RawOf(c.file, c.out.value.preview)
        /\ (c.file.fmt = "json" /\ c.file.nchars > 10000) =>
                RawOf(c.file, c.out.value.preview)

\* C11 (amended): for the json extension and a file that opens and decodes as
\* UTF-8, get_text_preview returns a text result with extension json: when the
\* text read (at most 10,000 characters) parses as JSON, which it also does when
\* the read cut only white space after the document, the content is the indented
\* re-serialization and re-parses to the value of the original; when it does not
\* parse, the content is the raw text read, unmodified.  A file that does not
\* decode gives the binary result, and one that cannot be opened makes
\* get_text_preview raise.
C11_JsonPreview ==
    \A c \in JsonPreviews :
        /\ c.file.fmt \in TextFmts =>
                /\ c.out.kind = "return"
                /\ c.out.value.type = "text"
                /\ c.out.value.extension = "json"
                /\ ReadParses(c.file) => PrettyOf(c.file, c.out.value.preview)
                /\ ~ReadParses(c.file) => RawOf(c.file, c.out.value.preview)
        /\ c.file.fmt \notin TextFmts \cup {"missing"} =>
                c.out.kind = "return" /\ c.out.value.type = "binary"
        /\ c.file.fmt = "missing" => c.out.kind = "raise"

\* C11's case: an object that writes a key twice, in a file longer than the read
\* by its trailing white space only, was pretty-printed.
C11_Witness ==
    \E c \in JsonPreviews :
        /\ c.file.fmt = "json" /\ c.file.nchars = 10002 /\ c.file.doc.tail = 3
        /\ Len(c.file.doc.members) = 3
        /\ c.out.kind = "return" /\ c.out.value.preview.form = "json_pretty"
        /\ Len(c.out.value.preview.members) = 2

\* The request being answered created a temp file.
CreatedTemp == "tempfile" \in effects

\* C12: get_file_preview neither deletes nor moves the file it is given (the
\* temp file is still there when it has returned), and every temp file the
\* /api/file handler created for a request is deleted by the time the response
\* is returned, on the preview path, on a decoder failure, on a download failure
\* and on the non-preview download path, so that no temp file of a finished
\* request remains.
C12_TempFilesDeleted ==
    /\ pc = "cleanup" => temp_path \in disk
    /\ (pc = "done" /\ response # NoResponse /\ CreatedTemp) => temp_path \notin disk
    /\ pc = "idle" => disk = {}

====
